---- MODULE Spec2Model ----
(***************************************************************************)
(* Model of the cexio REST client (src/cexio/__init__.py): credential      *)
(* validation, the signed request pipeline of Api._api_request, the retry  *)
(* policy of the session built by create_session_with_retries, and the     *)
(* response classification into a decoded body or a typed error.           *)
(*                                                                         *)
(* Strings of the program are TLA+ strings; a dict is a function from a    *)
(* finite set of string keys to strings.  The wall clock is an integer     *)
(* count of milliseconds that never rewinds.                               *)
(***************************************************************************)
EXTENDS Integers, Sequences, FiniteSets, TLC

(***************************************************************************)
(* Bounds of the model                                                     *)
(***************************************************************************)
MaxClock == 1
MaxCalls == 2
MaxCredLen == 28

(***************************************************************************)
(* Program constants                                                       *)
(***************************************************************************)
API_KEY_LENGTH == 26
API_SECRET_LENGTH == 27
MinCredentialLength == 20
DefaultRetries == 3
RequestTimeout == 30
status_forcelist == {429, 500, 502, 503, 504}
\* urllib3's Retry is built without allowed_methods, so its default set of
\* idempotent methods applies; POST is not one of them.
DEFAULT_ALLOWED_METHODS == {"HEAD", "GET", "PUT", "DELETE", "OPTIONS", "TRACE"}

VARIABLES
    username,     \* self.username
    api_key,      \* self.api_key
    api_secret,   \* self.api_secret
    session,      \* self.session: "none" | "open" | "closed"
    constructed,  \* outcome of Api.__init__: "none" | "ok" | "InvalidCredentialsError"
    clock,        \* int(time.time() * 1000)
    held,         \* a dict the caller keeps and may pass to several calls
    pc,           \* position of the calling thread: "idle" | "sending" | "done"
    req,          \* the request handed to the session by the call in progress
    attempts,     \* attempts the transport has made for req
    allForced,    \* every attempt of req so far got a status of status_forcelist
    resp,         \* the transport outcome that ended the call
    result,       \* what the call gave its caller
    nonces,       \* nonces of the private requests of this instance, in order
    via,          \* how req was built: "none" | "envelope" | "direct"
    scope,        \* the `with` block the client is used in
    signed,       \* the latest invocations of _create_signature, inputs and output
    threads       \* the calls of concurrent threads, each at its own position

vars == <<username, api_key, api_secret, session, constructed, clock, held, pc,
          req, attempts, allForced, resp, result, nonces, via, scope, signed,
          threads>>

\* what the sequential client never touches
aside == <<signed, threads>>

(***************************************************************************)
(* Dicts                                                                   *)
(***************************************************************************)
EmptyDict == [k \in {} |-> ""]

\* a dict merge that keeps the entries p already has
DictUpdateKeepingOld(p, q) ==
    [k \in (DOMAIN p) \cup (DOMAIN q) |-> IF k \in DOMAIN p THEN p[k] ELSE q[k]]

\* dict.update: entries of q replace and extend those of p
DictUpdate(p, q) ==
    [k \in (DOMAIN p) \cup (DOMAIN q) |-> IF k \in DOMAIN q THEN q[k] ELSE p[k]]

RECURSIVE Repeat(_, _)
Repeat(c, n) == IF n = 0 THEN "" ELSE c \o Repeat(c, n - 1)

(***************************************************************************)
(* Credential validation                                                   *)
(***************************************************************************)
\* a validator that rejects only when both values are short
validate_api_credentials_both_short(key, secret) ==
    IF key = "" \/ secret = ""
    THEN "InvalidCredentialsError"
    ELSE IF Len(key) < MinCredentialLength /\ Len(secret) < MinCredentialLength
         THEN "InvalidCredentialsError"
         ELSE "ok"

validate_api_credentials(key, secret) ==
    IF key = "" \/ secret = ""
    THEN "InvalidCredentialsError"
    ELSE IF Len(key) < MinCredentialLength \/ Len(secret) < MinCredentialLength
         THEN "InvalidCredentialsError"
         ELSE "ok"

(***************************************************************************)
(* Signer                                                                  *)
(***************************************************************************)
\* HMAC-SHA256 rendered as upper-case hex, taken as an injective function of
\* (key, message): the digest is written as the pair it was computed from.
HmacSha256Upper(k, message) == "HMAC[" \o k \o "](" \o message \o ")"

\* a signer that leaves the identifier out of the message
_create_signature_without_username(nonce) ==
    HmacSha256Upper(api_secret, nonce \o api_key)

_create_signature(nonce) ==
    HmacSha256Upper(api_secret, nonce \o username \o api_key)

\* str(int(time.time() * 1000))
NonceAt(now) == ToString(now)

\* the integer a nonce string denotes
NonceValue(s) == CHOOSE n \in 0..(MaxClock + 1) : ToString(n) = s

(***************************************************************************)
(* Response bodies and response.json()                                     *)
(***************************************************************************)
\* A decoded JSON value: an object (obj), an array of strings (items), a
\* string or number literal (str), or null.  "invalid" stands for a text
\* that json() rejects with ValueError.
JsonValue(kind, obj, items, str) ==
    [kind |-> kind, obj |-> obj, items |-> items, str |-> str]

NoJson == JsonValue("invalid", EmptyDict, <<>>, "")

JsonObject(obj) == JsonValue("object", obj, <<>>, "")

BodyTexts ==
    { "OK",
      "",
      "null",
      "42",
      "\"pong\"",
      "\"internal error\"",
      "[\"BTC\"]",
      "[\"error\"]",
      "{}",
      "{\"last\":\"42000.5\"}",
      "{\"key\":\"k\",\"nonce\":\"7\"}",
      "{\"error\":\"no active orders\"}",
      "{\"error\":\"Nonce must be incremented\",\"ok\":\"false\"}" }

\* response.json() on the texts of BodyTexts
Json(text) ==
    CASE text = "null" -> JsonValue("null", EmptyDict, <<>>, "")
      [] text = "42" -> JsonValue("number", EmptyDict, <<>>, "42")
      [] text = "\"pong\"" -> JsonValue("string", EmptyDict, <<>>, "pong")
      [] text = "\"internal error\"" ->
            JsonValue("string", EmptyDict, <<>>, "internal error")
      [] text = "[\"BTC\"]" -> JsonValue("array", EmptyDict, <<"BTC">>, "")
      [] text = "[\"error\"]" -> JsonValue("array", EmptyDict, <<"error">>, "")
      [] text = "{}" -> JsonObject(EmptyDict)
      [] text = "{\"last\":\"42000.5\"}" -> JsonObject([last |-> "42000.5"])
      [] text = "{\"key\":\"k\",\"nonce\":\"7\"}" ->
            JsonObject([key |-> "k", nonce |-> "7"])
      [] text = "{\"error\":\"no active orders\"}" ->
            JsonObject([error |-> "no active orders"])
      [] text = "{\"error\":\"Nonce must be incremented\",\"ok\":\"false\"}" ->
            JsonObject([error |-> "Nonce must be incremented", ok |-> "false"])
      [] OTHER -> NoJson

\* Python's `sub in s` on two strings
Contains(s, sub) ==
    \E i \in 1..(Len(s) - Len(sub) + 1) : SubSeq(s, i, i + Len(sub) - 1) = sub

\* Python's `'error' in response_data`: key membership on a dict, element
\* membership on a list, substring on a str, TypeError on anything else
ErrorIn(j) ==
    CASE j.kind = "object" -> IF "error" \in DOMAIN j.obj THEN "yes" ELSE "no"
      [] j.kind = "array" ->
            IF \E i \in 1..Len(j.items) : j.items[i] = "error" THEN "yes" ELSE "no"
      [] j.kind = "string" -> IF Contains(j.str, "error") THEN "yes" ELSE "no"
      [] OTHER -> "TypeError"

(***************************************************************************)
(* Results of a call                                                       *)
(***************************************************************************)
NoData == [form |-> "none", text |-> "", json |-> NoJson]
RawData(text) == [form |-> "raw", text |-> text, json |-> NoJson]
ParsedData(j) == [form |-> "parsed", text |-> "", json |-> j]

Outcome(kind, status, message, data, value) ==
    [kind |-> kind, status |-> status, message |-> message, data |-> data,
     value |-> value]

NoResult == Outcome("none", 0, "", NoData, NoJson)

\* a return that stamps decoded objects with an extra entry
ReturnedStamped(j) ==
    Outcome("return", 0, "", NoData,
            IF j.kind = "object"
            THEN [j EXCEPT !.obj = [k \in (DOMAIN j.obj) \cup {"nonce"} |-> IF k = "nonce" THEN "0" ELSE j.obj[k]]]
            ELSE j)

\* return response_data
Returned(j) == Outcome("return", 0, "", NoData, j)
Raised(kind) == Outcome(kind, 0, "", NoData, NoJson)

ApiResponseError(status_code, message, data) ==
    Outcome("ApiResponseError", status_code, message, data, NoJson)

\* a from_response that always reports the raw text as the message
from_response_raw_message(status, text) ==
    LET body == Json(text) IN
    IF body.kind = "invalid"
    THEN Outcome("ApiResponseError", status, text, RawData(text), NoJson)
    ELSE IF body.kind = "object"
         THEN Outcome("ApiResponseError", status, text, ParsedData(body), NoJson)
         ELSE Outcome("AttributeError", 0, "", NoData, NoJson)

\* ApiResponseError.from_response: only ValueError of json() is caught; body.get
\* on a decoded value that is not a dict raises AttributeError
from_response(status, text) ==
    LET body == Json(text) IN
    IF body.kind = "invalid"
    THEN ApiResponseError(status, text, RawData(text))
    ELSE IF body.kind = "object"
         THEN ApiResponseError(
                status,
                IF "error" \in DOMAIN body.obj THEN body.obj["error"] ELSE text,
                ParsedData(body))
         ELSE Raised("AttributeError")

\* response.raise_for_status() raises HTTPError for 400 <= status < 600
RaisesForStatus(status) == 400 <= status /\ status < 600

\* a classification without the inner try: the JSON decoding error of the
\* response is caught by the handler of RequestException
ClassifyWithoutInnerTry(status, text) ==
    IF RaisesForStatus(status)
    THEN from_response(status, text)
    ELSE LET response_data == Json(text) IN
         IF response_data.kind = "invalid"
         THEN Raised("NetworkError")
         ELSE CASE ErrorIn(response_data) = "yes" -> from_response(status, text)
                [] ErrorIn(response_data) = "no" -> Returned(response_data)
                [] OTHER -> Raised("TypeError")

\* lines 119-133 of _api_request: what the call does with a response the
\* session returned
Classify(status, text) ==
    IF RaisesForStatus(status)
    THEN from_response(status, text)
    ELSE LET response_data == Json(text) IN
         IF response_data.kind = "invalid"
         THEN ApiResponseError(status, "Invalid JSON response", NoData)
         ELSE CASE ErrorIn(response_data) = "yes" -> from_response(status, text)
                [] ErrorIn(response_data) = "no" -> Returned(response_data)
                [] OTHER -> Raised("TypeError")

(***************************************************************************)
(* Request building                                                        *)
(***************************************************************************)
Request(private, verb, params) ==
    [private |-> private, verb |-> verb, params |-> params,
     timeout |-> RequestTimeout]

NoRequest == [private |-> FALSE, verb |-> "", params |-> EmptyDict, timeout |-> 0]

\* the missing_params list of _validate_params
_validate_params(required_params, provided_params) ==
    {param \in required_params : param \notin DOMAIN provided_params}

\* an injection that leaves the nonce out
AuthFieldsWithoutNonce(now) ==
    [key |-> api_key, signature |-> _create_signature(NonceAt(now))]

\* {'key': self.api_key, 'signature': signature, 'nonce': nonce}
AuthFields(now) ==
    LET nonce == NonceAt(now) IN
    [key |-> api_key, signature |-> _create_signature(nonce), nonce |-> nonce]

\* the params dict of _api_request after lines 104-108
RequestParams(params, private, now) ==
    IF private THEN DictUpdate(params, AuthFields(now)) ELSE params

\* lines 114-117: anything but 'GET' goes through session.post
SessionVerb(method) == IF method = "GET" THEN "GET" ELSE "POST"

\* api_call, lines 140-141
ApiCallMethod(private, method) == IF ~private THEN "GET" ELSE method

Methods == {"GET", "POST", "PUT"}

\* dicts a caller may build
CallerDicts ==
    { EmptyDict,
      [currency |-> "BTC"],
      [nonce |-> "stale"],
      [key |-> "stale", signature |-> "stale", nonce |-> "stale",
       currency |-> "BTC"] }

\* what a caller passes as params: nothing, or the dict it holds
Args == {"none", "held"}

(***************************************************************************)
(* Transport                                                               *)
(***************************************************************************)
Statuses == {200, 201, 404, 503}

Response(status, text) == [kind |-> "response", status |-> status, text |-> text]
ConnectError == [kind |-> "connect_error", status |-> 0, text |-> ""]
ReadTimeout == [kind |-> "read_timeout", status |-> 0, text |-> ""]
NoOutcome == [kind |-> "none", status |-> 0, text |-> ""]

TransportOutcomes ==
    {Response(s, t) : s \in Statuses, t \in BodyTexts} \cup {ConnectError, ReadTimeout}

\* Retry.is_retry and Retry.increment for the Retry of lines 53-59: connect
\* errors are retried for every method, read errors and the statuses of
\* status_forcelist only for the methods of DEFAULT_ALLOWED_METHODS
WantsRetry(verb, o) ==
    CASE o.kind = "connect_error" -> TRUE
      [] o.kind = "read_timeout" -> verb \in DEFAULT_ALLOWED_METHODS
      [] OTHER -> verb \in DEFAULT_ALLOWED_METHODS /\ o.status \in status_forcelist

\* the except clauses of lines 128-136: every exception of the session
\* becomes NetworkError; a response it returned is classified
Finish(verb, o) ==
    IF o.kind = "response" /\ ~WantsRetry(verb, o)
    THEN Classify(o.status, o.text)
    ELSE Raised("NetworkError")

\* historical_ohlcv passes no timeout to session.get
NoTimeout == 0

\* the request of historical_ohlcv, line 195
DirectRequest ==
    [private |-> FALSE, verb |-> "GET", params |-> EmptyDict, timeout |-> NoTimeout]

\* lines 194-200 of historical_ohlcv: the results the call can give for the
\* outcome `o` of the session.  HTTPError is a RequestException, so an error
\* status becomes NetworkError; the decoded body is returned unexamined.  The
\* JSON decoding error of requests is a RequestException from requests 2.27
\* on and a plain JSONDecodeError before, which line 198 does not catch.
FinishDirect(o) ==
    IF o.kind # "response" \/ WantsRetry("GET", o)
    THEN {Raised("NetworkError")}
    ELSE IF RaisesForStatus(o.status)
         THEN {Raised("NetworkError")}
         ELSE IF Json(o.text).kind = "invalid"
              THEN {Raised("NetworkError"), Raised("JSONDecodeError")}
              ELSE {Returned(Json(o.text))}

(***************************************************************************)
(* Scoped use                                                              *)
(***************************************************************************)
\* state: "none" | "inside" | "exited"; raised: the error that left the
\* block, "none" when the block completed; escaped: the error the code
\* around the block receives
Scope(state, raised, escaped) ==
    [state |-> state, raised |-> raised, escaped |-> escaped]

NoScope == Scope("none", "none", "none")

\* an __exit__ that returns a true value
ExitSuppressesAlways == TRUE

\* __exit__ ends without a return statement: its result is None, which
\* tells the interpreter not to suppress the error
ExitSuppresses == FALSE

(***************************************************************************)
(* Concurrent calls                                                        *)
(***************************************************************************)
Threads == {"t1", "t2"}

\* position and locals of a thread inside _api_request
Thread(at, private, method, passed, now, nonce, signature, params, sent) ==
    [at |-> at, private |-> private, method |-> method, passed |-> passed,
     now |-> now, nonce |-> nonce, signature |-> signature, params |-> params,
     sent |-> sent]

IdleThread == Thread("idle", FALSE, "", EmptyDict, 0, "", "", EmptyDict, NoRequest)

(***************************************************************************)
(* State machine                                                           *)
(***************************************************************************)
Init ==
    /\ username = "trader"
    /\ api_key = Repeat("K", API_KEY_LENGTH)
    /\ api_secret = Repeat("S", API_SECRET_LENGTH)
    /\ session = "open"
    /\ constructed = "ok"
    /\ clock = 0
    /\ held = EmptyDict
    /\ pc = "idle"
    /\ req = NoRequest
    /\ attempts = 0
    /\ allForced = TRUE
    /\ resp = NoOutcome
    /\ result = NoResult
    /\ nonces = <<>>
    /\ via = "none"
    /\ scope = NoScope
    /\ signed = <<>>
    /\ threads = [t \in Threads |-> IdleThread]

\* _api_request up to the hand-over to the session.  `passed` is the dict
\* object the function received (EmptyDict when None), `isHeld` tells that it
\* is the caller's held dict, `now` is the clock reading of line 105.
ApiRequest(passed, isHeld, private, method, now) ==
    LET fresh == passed = EmptyDict        \* params = params or {}
        params == RequestParams(passed, private, now)
        missing == IF private
                   THEN _validate_params({"nonce", "key", "signature"}, params)
                   ELSE {}
    IN
    /\ held' = IF isHeld /\ ~fresh THEN params ELSE held
    /\ via' = "envelope"
    /\ attempts' = 0
    /\ allForced' = TRUE
    /\ resp' = NoOutcome
    /\ IF missing # {}
       THEN /\ pc' = "done"
            /\ req' = NoRequest
            /\ result' = Raised("ValueError")
            /\ nonces' = nonces
       ELSE /\ pc' = "sending"
            /\ req' = Request(private, SessionVerb(method), params)
            /\ result' = NoResult
            /\ nonces' = IF private THEN Append(nonces, params["nonce"]) ELSE nonces

CanCall(private) ==
    /\ pc = "idle"
    /\ constructed = "ok"
    /\ private => Len(nonces) < MaxCalls

PassedDict(arg) == IF arg = "held" THEN held ELSE EmptyDict

\* an api_call that takes over the key found in the caller's dict
api_call_adopting_key(arg, private, method) ==
    /\ CanCall(private)
    /\ ApiRequest(PassedDict(arg), arg = "held", private,
                  ApiCallMethod(private, method), clock)
    /\ api_key' = IF "key" \in DOMAIN PassedDict(arg)
                  THEN PassedDict(arg)["key"]
                  ELSE api_key
    /\ UNCHANGED <<username, api_secret, session, constructed, clock, scope, aside>>

api_call(arg, private, method) ==
    /\ CanCall(private)
    /\ ApiRequest(PassedDict(arg), arg = "held", private,
                  ApiCallMethod(private, method), clock)
    /\ UNCHANGED <<username, api_key, api_secret, session, constructed, clock,
                   scope, aside>>

public_api_call(arg) == api_call(arg, FALSE, "GET")

private_api_call(arg) == api_call(arg, TRUE, "POST")

\* get_crypto_address and get_all_crypto_addresses: the caller-side triple is
\* computed at the current clock reading, the one of _api_request `dt`
\* milliseconds later
get_crypto_address(currency, dt) ==
    /\ CanCall(TRUE)
    /\ clock + dt <= MaxClock
    /\ LET nonce == NonceAt(clock)
           params == [key |-> api_key, signature |-> _create_signature(nonce),
                      nonce |-> nonce, currency |-> currency]
       IN ApiRequest(params, FALSE, TRUE, ApiCallMethod(TRUE, "POST"), clock + dt)
    /\ clock' = clock + dt
    /\ UNCHANGED <<username, api_key, api_secret, session, constructed, scope,
                   aside>>

\* one attempt of the session for req, answered by `o`
Attempt(o) ==
    /\ pc = "sending"
    /\ o.kind = "read_timeout" => req.timeout # NoTimeout
    /\ attempts' = attempts + 1
    /\ allForced' = (allForced /\ o.kind = "response" /\ o.status \in status_forcelist)
    /\ IF WantsRetry(req.verb, o) /\ attempts < DefaultRetries
       THEN UNCHANGED <<pc, resp, result>>
       ELSE /\ pc' = "done"
            /\ resp' = o
            /\ result' \in (IF via = "direct"
                           THEN FinishDirect(o)
                           ELSE {Finish(req.verb, o)})
    /\ UNCHANGED <<username, api_key, api_secret, session, constructed, clock,
                   held, req, nonces, via, scope, aside>>

\* the caller takes the result; the request descriptor is discarded
Return ==
    /\ pc = "done"
    /\ pc' = "idle"
    /\ req' = NoRequest
    /\ attempts' = 0
    /\ allForced' = TRUE
    /\ resp' = NoOutcome
    /\ result' = NoResult
    /\ via' = "none"
    /\ UNCHANGED <<username, api_key, api_secret, session, constructed, clock,
                   held, nonces, scope, aside>>

\* historical_ohlcv: a GET outside _api_request, with its own error handling
historical_ohlcv ==
    /\ pc = "idle"
    /\ constructed = "ok"
    /\ pc' = "sending"
    /\ req' = DirectRequest
    /\ via' = "direct"
    /\ attempts' = 0
    /\ allForced' = TRUE
    /\ resp' = NoOutcome
    /\ result' = NoResult
    /\ UNCHANGED <<username, api_key, api_secret, session, constructed, clock,
                   held, nonces, scope, aside>>

\* __enter__
Enter ==
    /\ pc = "idle"
    /\ constructed = "ok"
    /\ scope.state = "none"
    /\ scope' = Scope("inside", "none", "none")
    /\ UNCHANGED <<username, api_key, api_secret, session, constructed, clock,
                   held, pc, req, attempts, allForced, resp, result, nonces, via,
                   aside>>

\* the error a finished call raised, "none" when it returned
ErrorOf(r) == IF r.kind \in {"none", "return"} THEN "none" ELSE r.kind

\* __exit__: the block is left, either at its end or by the error of the call
\* that just failed; the session is closed and the error goes on unless
\* __exit__ suppresses it
Exit ==
    /\ scope.state = "inside"
    /\ pc = "idle" \/ (pc = "done" /\ ErrorOf(result) # "none")
    /\ session' = "closed"
    /\ scope' = Scope("exited", ErrorOf(result),
                      IF ExitSuppresses THEN "none" ELSE ErrorOf(result))
    /\ pc' = "idle"
    /\ req' = NoRequest
    /\ via' = "none"
    /\ attempts' = 0
    /\ allForced' = TRUE
    /\ resp' = NoOutcome
    /\ result' = NoResult
    /\ UNCHANGED <<username, api_key, api_secret, constructed, clock, held,
                   nonces, aside>>

\* the caller builds a new dict to pass
CallerAssign(d) ==
    /\ pc = "idle"
    /\ d # held
    /\ held' = d
    /\ UNCHANGED <<username, api_key, api_secret, session, constructed, clock,
                   pc, req, attempts, allForced, resp, result, nonces, via,
                   scope, aside>>

\* a millisecond passes
Tick ==
    /\ clock < MaxClock
    /\ clock' = clock + 1
    /\ UNCHANGED <<username, api_key, api_secret, session, constructed, held,
                   pc, req, attempts, allForced, resp, result, nonces, via,
                   scope, aside>>

Next ==
    \/ \E arg \in Args, private \in BOOLEAN, method \in Methods :
          api_call(arg, private, method)
    \/ \E arg \in Args : public_api_call(arg)
    \/ \E arg \in Args : private_api_call(arg)
    \/ \E dt \in 0..1 : get_crypto_address("BTC", dt)
    \/ historical_ohlcv
    \/ \E o \in TransportOutcomes : Attempt(o)
    \/ Return
    \/ Enter
    \/ Exit
    \/ \E d \in CallerDicts : CallerAssign(d)
    \/ Tick

Spec == Init /\ [][Next]_vars

(***************************************************************************)
(* Construction, from a client that does not exist yet                     *)
(***************************************************************************)
InitCred ==
    /\ username = ""
    /\ api_key = ""
    /\ api_secret = ""
    /\ session = "none"
    /\ constructed = "none"
    /\ clock = 0
    /\ held = EmptyDict
    /\ pc = "idle"
    /\ req = NoRequest
    /\ attempts = 0
    /\ allForced = TRUE
    /\ resp = NoOutcome
    /\ result = NoResult
    /\ nonces = <<>>
    /\ via = "none"
    /\ scope = NoScope
    /\ signed = <<>>
    /\ threads = [t \in Threads |-> IdleThread]

\* Api.__init__: the fields are assigned before the credentials are checked,
\* the session is created only when the check passes
Construct(u, k, s) ==
    /\ constructed = "none"
    /\ username' = u
    /\ api_key' = k
    /\ api_secret' = s
    /\ constructed' = validate_api_credentials(k, s)
    /\ session' = IF validate_api_credentials(k, s) = "ok" THEN "open" ELSE "none"
    /\ UNCHANGED <<clock, held, pc, req, attempts, allForced, resp, result,
                   nonces, via, scope, aside>>

CredLengths == 0..MaxCredLen

NextCred ==
    \E k \in CredLengths, s \in CredLengths :
        Construct("trader", Repeat("K", k), Repeat("S", s))

SpecCred == InitCred /\ [][NextCred]_vars

(***************************************************************************)
(* The signer, over clients built from different credentials               *)
(***************************************************************************)
\* inputs chosen so that different splits give the same concatenation:
\* "1" \o "2u" = "12" \o "u", and "uK" followed by 20 K's is "u" followed by 21
SignNonces == {"1", "12"}
SignUsers == {"u", "2u", "uK"}
SignKeys == {Repeat("K", MinCredentialLength), Repeat("K", MinCredentialLength + 1)}
SignSecrets == {Repeat("S", MinCredentialLength), Repeat("S", MinCredentialLength + 1)}

\* Api.__init__ of another client, with credentials that pass the check
NewClient(u, k, s) ==
    /\ validate_api_credentials(k, s) = "ok"
    /\ <<u, k, s>> # <<username, api_key, api_secret>>
    /\ username' = u
    /\ api_key' = k
    /\ api_secret' = s
    /\ constructed' = "ok"
    /\ session' = "open"
    /\ UNCHANGED <<clock, held, pc, req, attempts, allForced, resp, result,
                   nonces, via, scope, aside>>

Invocation(nonce, signature) ==
    [nonce |-> nonce, username |-> username, key |-> api_key,
     secret |-> api_secret, signature |-> signature]

\* the last two invocations are kept
LatestTwo(q) == IF Len(q) > 2 THEN Tail(q) ELSE q

\* one invocation of _create_signature on the current client
Sign(nonce) ==
    /\ constructed = "ok"
    /\ signed' = LatestTwo(Append(signed, Invocation(nonce, _create_signature(nonce))))
    /\ UNCHANGED <<username, api_key, api_secret, session, constructed, clock,
                   held, pc, req, attempts, allForced, resp, result, nonces, via,
                   scope, threads>>

NextSign ==
    \/ \E u \in SignUsers, k \in SignKeys, s \in SignSecrets : NewClient(u, k, s)
    \/ \E n \in SignNonces : Sign(n)

SpecSign == InitCred /\ [][NextSign]_vars

(***************************************************************************)
(* Two threads calling one client, each with a dict of its own             *)
(***************************************************************************)
\* the dicts the threads pass
ThreadDicts == {EmptyDict, [currency |-> "BTC"], [id |-> "7", nonce |-> "stale"]}

\* a re-reading of the clock at signing time
NonceToSignReread(t) == NonceAt(clock)

\* line 106 signs the local variable nonce of the thread
NonceToSign(t) == threads[t].nonce

OtherVars ==
    <<username, api_key, api_secret, session, constructed, clock, held, pc, req,
      attempts, allForced, resp, result, nonces, via, scope, signed>>

\* api_call entered by thread t; a public call has nothing to inject
ThreadCall(t, passed, private, method) ==
    /\ threads[t].at = "idle"
    /\ threads' = [threads EXCEPT ![t] =
          Thread(IF private THEN "line105" ELSE "line113", private,
                 ApiCallMethod(private, method), passed, 0, "", "", passed,
                 NoRequest)]
    /\ UNCHANGED OtherVars

\* line 105
ThreadReadClock(t) ==
    /\ threads[t].at = "line105"
    /\ threads' = [threads EXCEPT ![t].at = "line106", ![t].now = clock,
                                  ![t].nonce = NonceAt(clock)]
    /\ UNCHANGED OtherVars

\* line 106
ThreadSign(t) ==
    /\ threads[t].at = "line106"
    /\ threads' = [threads EXCEPT ![t].at = "line107",
                                  ![t].signature = _create_signature(NonceToSign(t))]
    /\ UNCHANGED OtherVars

\* line 107
ThreadUpdate(t) ==
    /\ threads[t].at = "line107"
    /\ threads' = [threads EXCEPT ![t].at = "line113",
          ![t].params = DictUpdate(threads[t].passed,
                                   [key |-> api_key,
                                    signature |-> threads[t].signature,
                                    nonce |-> threads[t].nonce])]
    /\ UNCHANGED OtherVars

\* lines 113-117
ThreadSend(t) ==
    /\ threads[t].at = "line113"
    /\ threads' = [threads EXCEPT ![t].at = "sent",
          ![t].sent = Request(threads[t].private, SessionVerb(threads[t].method),
                              threads[t].params)]
    /\ UNCHANGED OtherVars

\* the call of thread t is over
ThreadReturn(t) ==
    /\ threads[t].at = "sent"
    /\ threads' = [threads EXCEPT ![t] = IdleThread]
    /\ UNCHANGED OtherVars

NextConc ==
    \/ \E t \in Threads, d \in ThreadDicts, private \in BOOLEAN, method \in Methods :
          ThreadCall(t, d, private, method)
    \/ \E t \in Threads : ThreadReadClock(t)
    \/ \E t \in Threads : ThreadSign(t)
    \/ \E t \in Threads : ThreadUpdate(t)
    \/ \E t \in Threads : ThreadSend(t)
    \/ \E t \in Threads : ThreadReturn(t)
    \/ Tick

SpecConc == Init /\ [][NextConc]_vars

(***************************************************************************)
(* Properties                                                              *)
(***************************************************************************)
AuthKeys == {"key", "signature", "nonce"}

Is2xx(status) == 200 <= status /\ status < 300

Answered == pc = "done" /\ resp.kind = "response" /\ via = "envelope"

\* C1: the nonce of each private request of the instance is strictly greater
\* than the nonce of every earlier private request, also when two calls fall
\* in the same clock millisecond.
C1_NonceStrictlyIncreasing ==
    \A i \in 1..Len(nonces), j \in 1..Len(nonces) :
        i < j => NonceValue(nonces[i]) < NonceValue(nonces[j])

\* C2: every request of a private call carries key, signature and nonce, the
\* key is the client's key and the signature is the signature of the nonce
\* sent in that same request, whatever entries the caller's dict already had.
C2_PrivateRequestCarriesFreshTriple ==
    (pc # "idle" /\ req.private) =>
        /\ AuthKeys \subseteq DOMAIN req.params
        /\ req.params["key"] = api_key
        /\ req.params["signature"] = _create_signature(req.params["nonce"])
        /\ \E now \in 0..clock : req.params["nonce"] = NonceAt(now)

\* a private request built from a caller's dict that already held a stale
\* key, signature and nonce
C2_Witness ==
    /\ pc = "sending"
    /\ req.private
    /\ held = req.params
    /\ DOMAIN req.params = AuthKeys \cup {"currency"}
    /\ req.params["nonce"] = NonceAt(clock)

\* C3: the outgoing parameters of every public call contain none of key,
\* signature, nonce, whatever dict the caller passes and whatever calls came
\* before.
C3_PublicRequestCarriesNoAuthField ==
    (pc = "sending" /\ ~req.private) => (DOMAIN req.params) \cap AuthKeys = {}

\* C4: a call with private = false is sent with GET and a call with
\* private = true is sent with POST, for every entry point and every method
\* argument, the default included.
C4_VerbFollowsVisibility ==
    pc = "sending" => req.verb = (IF req.private THEN "POST" ELSE "GET")

\* C5: a 2xx response whose body is a JSON object with a top-level error key
\* makes the call fail with ApiResponseError carrying the response's status,
\* the value of the error key as message and the parsed body as data.
C5_ErrorKeyWinsOverStatus ==
    (/\ Answered
     /\ Is2xx(resp.status)
     /\ Json(resp.text).kind = "object"
     /\ "error" \in DOMAIN Json(resp.text).obj) =>
        /\ result.kind = "ApiResponseError"
        /\ result.status = resp.status
        /\ result.message = Json(resp.text).obj["error"]
        /\ result.data = ParsedData(Json(resp.text))

C5_Witness ==
    /\ Answered
    /\ resp = Response(200, "{\"error\":\"no active orders\"}")
    /\ result.kind = "ApiResponseError"
    /\ result.message = "no active orders"
    /\ result.status = 200

\* C6: a 2xx response whose body is not valid JSON makes the call fail with
\* ApiResponseError carrying the response's status, the fixed invalid-JSON
\* message and no data; never NetworkError, never a returned value.
C6_InvalidJsonIsApiResponseError ==
    (/\ Answered
     /\ Is2xx(resp.status)
     /\ Json(resp.text).kind = "invalid") =>
        /\ result.kind = "ApiResponseError"
        /\ result.status = resp.status
        /\ result.message = "Invalid JSON response"
        /\ result.data.form = "none"

C6_Witness ==
    /\ Answered
    /\ resp = Response(200, "OK")
    /\ result.kind = "ApiResponseError"
    /\ result.message = "Invalid JSON response"

\* C7: a request, GET or POST, whose attempts all got a status of
\* {429, 500, 502, 503, 504} is attempted once plus exactly the configured
\* number of retries, never more, and the call then fails with NetworkError.
C7_ForcedStatusesAreRetriedThenNetworkError ==
    /\ attempts <= DefaultRetries + 1
    /\ (pc = "done" /\ attempts > 0 /\ allForced) =>
          /\ attempts = DefaultRetries + 1
          /\ result.kind = "NetworkError"

\* C8: whatever the transport outcome, a call ends by returning the decoded
\* body, by NetworkError or by ApiResponseError; no other error escapes.
C8_OnlyTypedOutcomes ==
    pc = "done" => result.kind \in {"return", "NetworkError", "ApiResponseError"}

\* C9: construction fails with InvalidCredentialsError if and only if the key
\* or the secret is empty or shorter than 20 characters; otherwise it
\* succeeds, whatever the relation of the lengths to 26 and 27.
C9_ConstructionFailsIffBelowFloor ==
    constructed # "none" =>
        /\ constructed \in {"ok", "InvalidCredentialsError"}
        /\ constructed = "InvalidCredentialsError" <=>
              \/ api_key = ""
              \/ api_secret = ""
              \/ Len(api_key) < 20
              \/ Len(api_secret) < 20

\* a client built from a key at the floor and a secret that is neither at
\* the floor nor of an advisory length
C9_Witness ==
    /\ constructed = "ok"
    /\ session = "open"
    /\ Len(api_key) = 20
    /\ Len(api_secret) = 28

\* C10: a 2xx response whose body is a JSON object without a top-level error
\* key makes the call return the parsed body exactly: no entry added, removed
\* or coerced.
C10_SuccessReturnsParsedBody ==
    (/\ Answered
     /\ Is2xx(resp.status)
     /\ Json(resp.text).kind = "object"
     /\ "error" \notin DOMAIN Json(resp.text).obj) =>
        /\ result.kind = "return"
        /\ result.value.kind = "object"
        /\ result.value.obj = Json(resp.text).obj
        /\ (req.private /\ "nonce" \notin DOMAIN Json(resp.text).obj) =>
              (DOMAIN result.value.obj) \cap AuthKeys = {}

C10_Witness ==
    /\ Answered
    /\ req.private
    /\ resp = Response(200, "{\"last\":\"42000.5\"}")
    /\ result.kind = "return"
    /\ result.value.obj = [last |-> "42000.5"]

\* C11: when the client is used in a `with` block, the session is closed
\* once the block is left, at its end or through an error of a call inside
\* it, and in the error case that same error reaches the code around the
\* block.
C11_ScopeExitClosesAndPropagates ==
    scope.state = "exited" =>
        /\ session = "closed"
        /\ scope.escaped = scope.raised

\* a block left through the ApiResponseError of a call made inside it
C11_Witness ==
    /\ scope.state = "exited"
    /\ scope.raised = "ApiResponseError"
    /\ scope.escaped = "ApiResponseError"
    /\ session = "closed"

\* C12: for every HTTP outcome historical_ohlcv gives the class of result a
\* standard public call gives: ApiResponseError with the status for a 4xx/5xx
\* response, ApiResponseError with the invalid-JSON message for a 2xx body
\* that is not JSON, ApiResponseError for a 2xx JSON body with an error key,
\* NetworkError for a transport failure, the decoded body otherwise.
C12_DirectPathClassifiesLikePublicCall ==
    (pc = "done" /\ via = "direct") =>
        LET surfaced == resp.kind = "response" /\ ~WantsRetry("GET", resp)
            body == Json(resp.text)
        IN
        CASE ~surfaced -> result.kind = "NetworkError"
          [] surfaced /\ RaisesForStatus(resp.status) ->
                result.kind = "ApiResponseError" /\ result.status = resp.status
          [] surfaced /\ ~RaisesForStatus(resp.status) /\ body.kind = "invalid" ->
                /\ result.kind = "ApiResponseError"
                /\ result.message = "Invalid JSON response"
          [] surfaced /\ ~RaisesForStatus(resp.status) /\ body.kind = "object"
                /\ "error" \in DOMAIN body.obj ->
                result.kind = "ApiResponseError"
          [] OTHER -> result = Returned(body)

\* C14: a 4xx/5xx response that the transport surfaces makes the call fail
\* with ApiResponseError carrying the response's status, as message the
\* body's error field when the body is a JSON object that has one and the raw
\* text otherwise, and as data the parsed body when the body is valid JSON
\* and the raw text otherwise; with a status outside status_forcelist the
\* response ends the call instead of being retried away.
C14_ErrorStatusGivesApiResponseError ==
    (/\ Answered
     /\ RaisesForStatus(resp.status)
     /\ ~WantsRetry(req.verb, resp)) =>
        LET body == Json(resp.text) IN
        /\ result.kind = "ApiResponseError"
        /\ result.status = resp.status
        /\ result.message =
              (IF body.kind = "object" /\ "error" \in DOMAIN body.obj
               THEN body.obj["error"]
               ELSE resp.text)
        /\ result.data =
              (IF body.kind = "invalid" THEN RawData(resp.text) ELSE ParsedData(body))
        /\ resp.status \notin status_forcelist => result.kind # "NetworkError"

\* C15: every HTTP request sent by any operation of the client carries the
\* fixed 30-second timeout.
C15_EveryRequestCarriesTheTimeout ==
    pc = "sending" => req.timeout = 30

\* C16: the check that key, signature and nonce are present after injection
\* passes for every params dict, so no private call fails with the
\* parameter-validation error, and a private request that is sent has
\* passed the check.
C16_PostConditionNeverFails ==
    /\ result.kind # "ValueError"
    /\ (pc # "idle" /\ via = "envelope") => req.verb # ""
    /\ (pc = "sending" /\ req.private) =>
          _validate_params({"nonce", "key", "signature"}, req.params) = {}

\* a private request built from absent params
C16_Witness ==
    /\ pc = "sending"
    /\ req.private
    /\ DOMAIN req.params = AuthKeys

\* C18: after construction no operation changes the identifier, the key or
\* the secret or replaces the session: a step may close the session, never
\* drop it or put another in its place.
C18_CredentialsAndSessionAreFrozen ==
    [][constructed = "ok" =>
          /\ username' = username
          /\ api_key' = api_key
          /\ api_secret' = api_secret
          /\ session' = session \/ (session = "open" /\ session' = "closed")]_vars

\* a failed call after two private requests, the fields still as constructed
C18_Witness ==
    /\ pc = "done"
    /\ result.kind = "NetworkError"
    /\ Len(nonces) = 2
    /\ username = "trader"
    /\ api_key = Repeat("K", API_KEY_LENGTH)
    /\ api_secret = Repeat("S", API_SECRET_LENGTH)
    /\ session = "open"

\* the number of inputs in which two invocations of the signer differ
InputsChanged(a, b) ==
    Cardinality({f \in {"nonce", "username", "key", "secret"} : a[f] # b[f]})

\* C13: two invocations of the signer with identical inputs give identical
\* signatures, two invocations that differ in exactly one of nonce,
\* identifier, key, secret give different signatures, and the signed message
\* is nonce, identifier, key concatenated in that order.
C13_SignerIsDeterministicAndSensitive ==
    \A i \in DOMAIN signed, j \in DOMAIN signed :
        LET a == signed[i]
            b == signed[j]
        IN
        /\ InputsChanged(a, b) = 0 => a.signature = b.signature
        /\ InputsChanged(a, b) = 1 => a.signature # b.signature
        /\ a.signature = HmacSha256Upper(a.secret, a.nonce \o a.username \o a.key)

\* two invocations that differ in the identifier alone
C13_Witness ==
    /\ Len(signed) = 2
    /\ InputsChanged(signed[1], signed[2]) = 1
    /\ signed[1].username # signed[2].username
    /\ signed[1].signature # signed[2].signature

\* C17: when two calls run concurrently on one client, each with its own
\* dict, each request sent is the one the call sends when run alone at the
\* clock reading it took: the signature is the one of the nonce sent, and
\* nothing of the other call is in it.
C17_ConcurrentCallsSendWhatTheySendAlone ==
    \A t \in Threads :
        threads[t].at = "sent" =>
            /\ threads[t].sent =
                  Request(threads[t].private, SessionVerb(threads[t].method),
                          RequestParams(threads[t].passed, threads[t].private,
                                        threads[t].now))
            /\ threads[t].private =>
                  threads[t].sent.params["signature"] =
                      _create_signature(threads[t].sent.params["nonce"])

\* one thread has sent its private request while the other, which read the
\* clock earlier, has signed and not yet injected
C17_Witness ==
    /\ threads["t1"].at = "line107"
    /\ threads["t2"].at = "sent"
    /\ threads["t2"].private
    /\ threads["t1"].now < threads["t2"].now
    /\ threads["t1"].passed # threads["t2"].passed

====
